---- MODULE Spec2Model ----
(***************************************************************************)
(* Model of src/app.py: the Streamlit "AI Tutor" application.              *)
(*                                                                         *)
(* One action of the model is one user interaction: the script run that    *)
(* the interaction triggers, from main() down to the mode handler, plus    *)
(* the run started by st.rerun() when the handler asks for one.            *)
(*                                                                         *)
(* Python strings are sequences of one-character strings, so that strip,   *)
(* split, startswith and slicing are computed the way the code computes    *)
(* them.  st.session_state is a dict: a function whose domain is the set   *)
(* of the keys that exist, so that reading a key that was never assigned   *)
(* is the AttributeError it is in the code.                                *)
(***************************************************************************)
EXTENDS Integers, Sequences, FiniteSets, TLC

VARIABLES
    CORRECT_PASSWORD,  \* the module global read from the environment
    session_state,     \* st.session_state: a dict from the keys that exist
    q_radio,           \* widget state of the quiz radios keyed q_0, q_1, ...
    mode,              \* widget state of the sidebar radio "Select Mode:"
    guided_origin,     \* history: the topic each guided turn was produced under
    last,              \* history: what the last interaction did and showed
    quiz_blocks,       \* parse_quiz alone: the blocks of the text handed to it
    valid_questions    \* parse_quiz alone: what it returned, None before the call

vars == <<CORRECT_PASSWORD, session_state, q_radio, mode, guided_origin, last,
          quiz_blocks, valid_questions>>

-----------------------------------------------------------------------------
(* Bounds of the model *)

\* longest guided history the model lets Send Response build
MaxHist == 3

\* longest free-chat history the model lets Send build
MaxChat == 2

\* longest free-chat history a session of free chat alone builds
MaxLongChat == 12

\* most blocks of a text handed to parse_quiz alone
MaxBlocks == 7

\* most blocks of such a text that are not a plain complete block
MaxOdd == 1

-----------------------------------------------------------------------------
(* Python values *)

\* None, and a string or list value; both have the same shape so that a
\* field holding either can be compared
None == [t |-> "None", v |-> <<>>]
Val(x) == [t |-> "val", v |-> x]

\* truth value of None, of a string and of a list
Truthy(x) == x.t = "val" /\ Len(x.v) > 0

\* the empty dict {}
EmptyDict == [k \in {} |-> <<>>]

\* d[k] = v on a dict
DictSet(d, k, v) == [x \in DOMAIN d \cup {k} |-> IF x = k THEN v ELSE d[x]]

-----------------------------------------------------------------------------
(* str methods *)

IsSpace(c) == c \in {" ", "\n", "\t"}

RECURSIVE LStrip(_)
LStrip(s) == IF s # <<>> /\ IsSpace(Head(s)) THEN LStrip(Tail(s)) ELSE s

RECURSIVE RStrip(_)
RStrip(s) ==
    IF s # <<>> /\ IsSpace(s[Len(s)]) THEN RStrip(SubSeq(s, 1, Len(s) - 1)) ELSE s

\* s.strip()
Strip(s) == RStrip(LStrip(s))

\* s.startswith(p)
StartsWith(s, p) == Len(s) >= Len(p) /\ SubSeq(s, 1, Len(p)) = p

\* s[n:]
From(s, n) == SubSeq(s, n + 1, Len(s))

\* index of the first c in s, 0 when there is none
RECURSIVE FindFrom(_, _, _)
FindFrom(s, c, i) ==
    IF i > Len(s) THEN 0 ELSE IF s[i] = c THEN i ELSE FindFrom(s, c, i + 1)

Find(s, c) == FindFrom(s, c, 1)

\* the pieces of a string from the pieces of its two halves: the last piece
\* of the left half and the first of the right half are one piece
JoinPieces(l, r) ==
    SubSeq(l, 1, Len(l) - 1) \o <<l[Len(l)] \o r[1]>> \o Tail(r)

\* s.split(c): every piece between two occurrences of c.  The string is cut
\* in halves rather than walked, to keep the evaluation shallow.
RECURSIVE Split(_, _)
Split(s, c) ==
    IF Len(s) = 0 THEN <<s>>
    ELSE IF Len(s) = 1 THEN (IF s[1] = c THEN <<<<>>, <<>>>> ELSE <<s>>)
    ELSE JoinPieces(Split(SubSeq(s, 1, Len(s) \div 2), c),
                    Split(SubSeq(s, Len(s) \div 2 + 1, Len(s)), c))

\* s.split(c, 1): cut at the first c only
Split1(s, c) ==
    LET i == Find(s, c)
    IN  IF i = 0 THEN <<s>>
        ELSE <<SubSeq(s, 1, i - 1), SubSeq(s, i + 1, Len(s))>>

-----------------------------------------------------------------------------
(* parse_quiz *)

QuizKeys == <<"question", "A", "B", "C", "D", "correct", "explanation">>

\* the tuple ('Q1:', 'Q2:', 'Q3:', 'Q4:', 'Q5:') of line 284
QPrefixes == {<<"Q", n, ":">> : n \in {"1", "2", "3", "4", "5"}}

\* the if/elif chain of the loop body on the stripped, non-empty line;
\* st = [questions, current] are the loop's two variables
ParseStripped(st, line) ==
    IF \E p \in QPrefixes : StartsWith(line, p)
    THEN [questions |-> IF "question" \in DOMAIN st.current
                        THEN Append(st.questions, st.current)
                        ELSE st.questions,
          current   |-> DictSet(EmptyDict, "question",
                                Strip(Split1(line, ":")[2]))]
    ELSE IF \E o \in {"A", "B", "C", "D"} : StartsWith(line, <<o, ")">>)
    THEN [st EXCEPT !.current = DictSet(st.current, line[1],
                                        Strip(From(line, 2)))]
    ELSE IF StartsWith(line, <<"C", "o", "r", "r", "e", "c", "t", ":">>)
    THEN [st EXCEPT !.current = DictSet(st.current, "correct",
                                        Strip(Split(line, ":")[2]))]
    ELSE IF StartsWith(line, <<"E", "x", "p", "l", "a", "n", "a", "t", "i",
                               "o", "n", ":">>)
    THEN [st EXCEPT !.current = DictSet(st.current, "explanation",
                                        Strip(Split1(line, ":")[2]))]
    ELSE st

\* line = line.strip(); if not line: continue
SkipBlank(st, line) == IF line = <<>> THEN st ELSE ParseStripped(st, line)

\* one iteration of the loop over the lines
ParseLine(st, raw) == SkipBlank(st, Strip(raw))

\* the loop from its state loop.st over the lines loop.lines: over their
\* first half, then from the state that leaves over their second half, to
\* keep the evaluation shallow
RECURSIVE ParseLoop(_)
ParseLoop(loop) ==
    IF Len(loop.lines) = 0 THEN loop.st
    ELSE IF Len(loop.lines) = 1 THEN ParseLine(loop.st, loop.lines[1])
    ELSE ParseLoop(
            [st    |-> ParseLoop(
                          [st    |-> loop.st,
                           lines |-> SubSeq(loop.lines, 1,
                                            Len(loop.lines) \div 2)]),
             lines |-> SubSeq(loop.lines, Len(loop.lines) \div 2 + 1,
                              Len(loop.lines))])

\* for line in lines
ParseLines(st, lines) == ParseLoop([st |-> st, lines |-> lines])

\* all(key in q for key in [...])
ValidQuestion(q) == \A i \in 1..Len(QuizKeys) : QuizKeys[i] \in DOMAIN q

RECURSIVE Filter(_)
Filter(qs) ==
    IF qs = <<>> THEN <<>>
    ELSE (IF ValidQuestion(Head(qs)) THEN <<Head(qs)>> ELSE <<>>)
         \o Filter(Tail(qs))

\* number of questions parse_quiz returns at most
MaxQuestions == 5

\* s[:n]
Take(s, n) == SubSeq(s, 1, IF Len(s) < n THEN Len(s) ELSE n)

\* lines 301-302 dropped: the record still open is lost
FlushNothing(st) == st.questions

\* lines 301-302: the record still open when the lines run out
Flush(st) ==
    IF "question" \in DOMAIN st.current
    THEN Append(st.questions, st.current)
    ELSE st.questions

parse_quiz(quiz_text) ==
    Take(Filter(Flush(ParseLines([questions |-> <<>>, current |-> EmptyDict],
                                 Split(Strip(quiz_text), "\n")))),
         MaxQuestions)

-----------------------------------------------------------------------------
(* Texts the model provider returns to the quiz prompt *)

NL == <<"\n">>

\* the seven lines of one block, its question numbered n and answered by c
Block(n, c) ==
    <<"Q", n, ":", " ", "q", n>> \o NL \o
    <<"A", ")", " ", "w">> \o NL \o
    <<"B", ")", " ", "x">> \o NL \o
    <<"C", ")", " ", "y">> \o NL \o
    <<"D", ")", " ", "z">> \o NL \o
    <<"C", "o", "r", "r", "e", "c", "t", ":", " ", c>> \o NL \o
    <<"E", "x", "p", "l", "a", "n", "a", "t", "i", "o", "n", ":", " ", "e", n>>
    \o NL

\* two complete blocks
TextTwo == Block("1", "B") \o NL \o Block("2", "A")

\* a complete block followed by a block without its Correct line
TextPartial ==
    Block("1", "A") \o NL \o
    <<"Q", "2", ":", " ", "q", "2">> \o NL \o <<"A", ")", " ", "w">> \o NL

\* a refusal: no line is recognised
TextNone == <<"s", "o", "r", "r", "y">> \o NL

\* six complete blocks, one more than asked for
TextSix ==
    Block("1", "B") \o NL \o Block("2", "A") \o NL \o Block("3", "C") \o NL \o
    Block("4", "B") \o NL \o Block("5", "A") \o NL \o Block("1", "C")

QuizTexts == {TextTwo, TextPartial, TextNone, TextSix}

-----------------------------------------------------------------------------
(* What the user and the collaborators can feed one script run *)

Passwords  == {<<"p">>, <<"x">>}                \* typed into "Password"
KeyInputs  == {<<>>, <<" ">>, <<" ", "k">>}     \* typed into "API Key"
Topics     == {<<>>, <<"t">>, <<"u">>}          \* typed into a topic box
Messages   == {<<>>, <<"h">>}                   \* typed into any other box
Choices    == {"B", "C"}                        \* options picked in the quiz
Modes      == {"guided", "practice", "chat"}
ReplyText  == <<"r">>                           \* response.text of a dialogue call
InitOutcomes == {"ok", "GoogleAPIError", "Exception"}

\* the text a failed call has none of
NoText == <<>>

\* a script run nothing triggered but st.rerun(): no button is pressed, no
\* box was edited
NoEvent ==
    [button   |-> "none",      \* the button clicked
     text     |-> NoText,      \* content of the text box next to that button
     topic    |-> None,        \* new content of the guided topic box, if edited
     mode     |-> "same",      \* new choice of the sidebar radio, if changed
     sel      |-> <<>>,        \* choices of the quiz radios sent by a submit
     init     |-> "ok",        \* outcome of genai.configure / GenerativeModel
     write_ok |-> TRUE,        \* whether the key widget's state may be written
     reply    |-> [ok |-> FALSE, text |-> NoText]]  \* outcome of generate_content

-----------------------------------------------------------------------------
(* One script run: r is the state of the run.  Every operator below takes   *)
(* the run as the statements before it left it and returns it as its own    *)
(* statements leave it.                                                     *)

\* the run that starts from the session as the previous run left it
StartRun(ss, q, m, origin) ==
    [ss      |-> ss,          \* st.session_state
     q       |-> q,           \* the quiz radios
     mode    |-> m,           \* the sidebar radio
     origin  |-> origin,
     err     |-> "none",      \* st.error shown, or the exception that ended the run
     handler |-> "none",      \* the screen or mode handler the run entered
     gated   |-> TRUE,        \* login, key and model held when a mode was entered
     calls   |-> 0,           \* generate_content calls made
     fired   |-> FALSE,       \* the run drew the widget of its event
     rerun   |-> FALSE,       \* the run ended in st.rerun()
     entry   |-> FALSE,       \* the widget keyed api_key_entry was instantiated
     nav     |-> FALSE,       \* the sidebar radio was drawn
     radios  |-> 0,           \* quiz radios q_0, q_1, ... drawn
     prompt  |-> NoText,      \* the prompt of the free-chat call, if any
     score   |-> -1]          \* the score shown under "Results", if any

Has(r, k) == k \in DOMAIN r.ss

\* st.session_state.k = v
Set(r, k, v) == [r EXCEPT !.ss = DictSet(r.ss, k, v)]

\* if k not in st.session_state: st.session_state.k = v
SetDefault(r, k, v) == IF Has(r, k) THEN r ELSE Set(r, k, v)

\* st.error(message)
Error(r, e) == [r EXCEPT !.err = e]

\* st.rerun()
Rerun(r) == [r EXCEPT !.rerun = TRUE]

\* the run enters a screen or a mode handler
Enter(r, h) == [r EXCEPT !.handler = h]

\* a widget the run's event comes from was drawn by the run
Reached(r, hit) == [r EXCEPT !.fired = r.fired \/ hit]

\* st.button(label): true in the run its click triggered
Button(r, ev, label) == Reached(r, ev.button = label)

\* reading st.session_state.k of a key that does not exist
AttributeError(r) == [r EXCEPT !.err = "AttributeError"]

\* an exception no handler caught ended the run
Raised(r) == r.err \in {"AttributeError", "StreamlitAPIException"}

\* the values of lines 32-45
InitialModeState ==
    [model          |-> None,
     chat_history   |-> <<>>,
     guided_history |-> <<>>,
     guided_topic   |-> <<>>,
     quiz_questions |-> None,
     quiz_submitted |-> FALSE,
     user_answers   |-> EmptyDict]

\* lines 32-45: `if k not in st.session_state: st.session_state.k = ...`
InitModeKeys(r) ==
    [r EXCEPT !.ss = [k \in DOMAIN r.ss \cup DOMAIN InitialModeState |->
                        IF k \in DOMAIN r.ss THEN r.ss[k]
                        ELSE InitialModeState[k]]]

init_session_state(r) ==
    SetDefault(SetDefault(SetDefault(r, "authenticated", FALSE),
                          "api_key", None),
               "api_key_entry", <<>>)

\* lines 25-26 without line 26: the credential outlives the model
ClearApiModelOnly(r) == Set(r, "model", None)

\* lines 25-26
ClearApi(r) == Set(Set(r, "model", None), "api_key", None)

\* lines 27-28
ClearEntry(r, clear_entry) ==
    IF clear_entry THEN Set(r, "api_key_entry", <<>>) ELSE r

\* Line 28 assigns to the key of a widget; when that widget was already
\* instantiated in this run Streamlit may refuse the assignment with
\* StreamlitAPIException, which ends the run: ev.write_ok is its answer.
reset_api_state(r, ev, message, clear_entry) ==
    IF clear_entry /\ r.entry /\ ~ev.write_ok
    THEN [ClearApi(r) EXCEPT !.err = "StreamlitAPIException"]
    ELSE InitModeKeys(Error(ClearEntry(ClearApi(r), clear_entry), message))

configure_model(r, ev) ==
    IF ~Truthy(r.ss.api_key) THEN r
    ELSE IF ev.init = "ok" THEN Set(r, "model", Val(<<"GenerativeModel">>))
    ELSE IF ev.init = "GoogleAPIError"
    THEN reset_api_state(r, ev, "init_failed", TRUE)
    ELSE reset_api_state(r, ev, "init_unexpected", FALSE)

\* lines 78-83 with the comparison of line 79 dropped
CheckPasswordAny(r, ev) == Rerun(Set(r, "authenticated", TRUE))

\* lines 78-83, the button being clicked
CheckPassword(r, ev) ==
    IF Val(ev.text) = CORRECT_PASSWORD
    THEN Rerun(Set(r, "authenticated", TRUE))
    ELSE Error(r, "incorrect_password")

login_screen(r, ev) ==
    IF CORRECT_PASSWORD = None THEN Error(Enter(r, "login"), "not_configured")
    ELSE IF ev.button = "Login"
    THEN CheckPassword(Button(Enter(r, "login"), ev, "Login"), ev)
    ELSE Enter(r, "login")

-----------------------------------------------------------------------------
(* Guided Learning *)

Msg(role, content) == [role |-> role, content |-> content]

\* model.generate_content(prompt): one call, which returns or raises
Generate(r) == [r EXCEPT !.calls = r.calls + 1]

\* st.session_state.guided_history = []
ClearGuided(r) == [Set(r, "guided_history", <<>>) EXCEPT !.origin = <<>>]

\* st.session_state.guided_history.append(msg), in a dialogue about topic
AppendGuided(r, msg, topic) ==
    [Set(r, "guided_history", Append(r.ss.guided_history, msg))
     EXCEPT !.origin = Append(r.origin, topic)]

\* the try of lines 115-119
StartReply(r, ev, topic) ==
    IF ev.reply.ok
    THEN AppendGuided(r, Msg("assistant", ev.reply.text), topic)
    ELSE Error(r, "generate_failed")

\* the body of `if st.button("Start Learning") and topic:`
StartLearning(r, ev, topic) == StartReply(Generate(ClearGuided(r)), ev, topic)

\* the try of lines 148-153
SendReply(r, ev) ==
    IF ev.reply.ok
    THEN Rerun(AppendGuided(r, Msg("assistant", ev.reply.text),
                            r.ss.guided_topic))
    ELSE Error(r, "generate_failed")

\* the body of `if st.button("Send Response") and user_response:`
SendResponse(r, ev) ==
    SendReply(Generate(AppendGuided(r, Msg("user", ev.text),
                                    r.ss.guided_topic)),
              ev)

\* value of the topic box: what the user typed, else the stored topic
TopicBox(r, ev) == IF ev.topic = None THEN r.ss.guided_topic ELSE ev.topic.v

\* lines 98-100 without line 100: the old transcript survives the new topic
SetGuidedTopicKeepsHistory(r, topic) ==
    IF topic # r.ss.guided_topic THEN Set(r, "guided_topic", topic) ELSE r

\* lines 98-100
SetGuidedTopic(r, topic) ==
    IF topic # r.ss.guided_topic
    THEN ClearGuided(Set(r, "guided_topic", topic))
    ELSE r

\* lines 129-153
guided_reply(r, ev) ==
    IF ~Has(r, "guided_history") THEN AttributeError(r)
    ELSE IF r.ss.guided_history = <<>> THEN r
    ELSE IF ev.button = "Send Response" /\ ev.text # <<>>
    THEN SendResponse(Button(r, ev, "Send Response"), ev)
    ELSE Button(r, ev, "Send Response")

\* lines 102-119
guided_start(r, ev, topic) ==
    IF ev.button = "Start Learning" /\ topic # <<>>
    THEN StartLearning(Button(r, ev, "Start Learning"), ev, topic)
    ELSE Button(r, ev, "Start Learning")

\* lines 96-153
guided_topic_box(r, ev, topic) ==
    guided_reply(guided_start(Reached(SetGuidedTopic(r, topic),
                                      ev.topic # None),
                              ev, topic),
                 ev)

guided_learning(r, ev) ==
    IF ~Has(r, "model") THEN AttributeError(Enter(r, "guided"))
    ELSE IF ~Truthy(r.ss.model)
    THEN Error(Enter(r, "guided"), "model_not_initialized")
    ELSE IF ~Has(r, "guided_topic") THEN AttributeError(Enter(r, "guided"))
    ELSE guided_topic_box(Enter(r, "guided"), ev, TopicBox(r, ev))

-----------------------------------------------------------------------------
(* Practice Tests *)

\* f"A) {q['A']}" and its like
Option(q, l) == <<l, ")", " ">> \o q[l]

\* the try of lines 215-219
QuizReply(r, ev) ==
    IF ev.reply.ok
    THEN Set(r, "quiz_questions", Val(parse_quiz(ev.reply.text)))
    ELSE Error(r, "generate_failed")

\* line 168 alone: the answers of the quiz before are kept
ResetSubmittedOnly(r) == Set(r, "quiz_submitted", FALSE)

\* lines 168-169
ResetQuiz(r) ==
    Set(Set(r, "quiz_submitted", FALSE), "user_answers", EmptyDict)

\* the body of `if st.button("Generate Quiz") and topic:`
GenerateQuiz(r, ev) == QuizReply(Generate(ResetQuiz(r)), ev)

\* the radios keyed q_i of the form: a submit sends the user's choices, any
\* other run finds the widgets as the last run left them
Radios(r, ev) ==
    IF ev.button = "Submit Quiz"
    THEN [i \in DOMAIN r.q |->
            IF i < Len(r.ss.quiz_questions.v) THEN ev.sel[i] ELSE r.q[i]]
    ELSE r.q

\* the for loop of the form, lines 226-235, the radios returning q
QuizForm(r, q) ==
    [Set(r, "user_answers",
         [i \in DOMAIN r.ss.user_answers
                \cup 0..(Len(r.ss.quiz_questions.v) - 1) |->
            IF i < Len(r.ss.quiz_questions.v)
            THEN Option(r.ss.quiz_questions.v[i + 1], q[i])
            ELSE r.ss.user_answers[i]])
     EXCEPT !.q = q, !.radios = Len(r.ss.quiz_questions.v)]

\* lines 248-249 without the [0] of line 249: the whole option is compared
UserLetterWholeOption(ua, i) == IF i \in DOMAIN ua THEN ua[i] ELSE <<>>

\* user_answer[0] if user_answer else "", user_answer being .get(i, "")
UserLetter(ua, i) ==
    IF i \in DOMAIN ua /\ ua[i] # <<>> THEN <<ua[i][1]>> ELSE <<>>

\* the loop of lines 247-253
Score(questions, ua) ==
    Cardinality({i \in 0..(Len(questions) - 1) :
                    UserLetter(ua, i) = questions[i + 1]["correct"]})

\* lines 243-269
quiz_results(r) ==
    IF ~Has(r, "quiz_submitted") THEN AttributeError(r)
    ELSE IF r.ss.quiz_submitted
    THEN [r EXCEPT !.score = Score(r.ss.quiz_questions.v, r.ss.user_answers)]
    ELSE r

\* lines 237-240
SubmitQuiz(r, ev) ==
    IF ev.button = "Submit Quiz" THEN Set(r, "quiz_submitted", TRUE) ELSE r

\* lines 222-269
quiz_display(r, ev) ==
    IF ~Has(r, "quiz_questions") THEN AttributeError(r)
    ELSE IF ~Truthy(r.ss.quiz_questions) THEN r
    ELSE IF ~Has(r, "user_answers") THEN AttributeError(r)
    ELSE quiz_results(SubmitQuiz(Button(QuizForm(r, Radios(r, ev)),
                                        ev, "Submit Quiz"),
                                 ev))

\* lines 167-219
quiz_generate(r, ev) ==
    IF ev.button = "Generate Quiz" /\ ev.text # <<>>
    THEN GenerateQuiz(Button(r, ev, "Generate Quiz"), ev)
    ELSE Button(r, ev, "Generate Quiz")

practice_tests(r, ev) ==
    IF ~Has(r, "model") THEN AttributeError(Enter(r, "practice"))
    ELSE IF ~Truthy(r.ss.model)
    THEN Error(Enter(r, "practice"), "model_not_initialized")
    ELSE quiz_display(quiz_generate(Enter(r, "practice"), ev), ev)

-----------------------------------------------------------------------------
(* Free Chat *)

\* messages of the history the prompt is built from
ChatWindow == 10

\* chat_history[:] in the place of chat_history[-10:]: no window
LastNAll(s, n) == s

\* chat_history[-10:]
LastN(s, n) == IF Len(s) <= n THEN s ELSE SubSeq(s, Len(s) - n + 1, Len(s))

\* "User" if msg["role"] == "user" else "Assistant"
RoleLabel(msg) ==
    IF msg.role = "user" THEN <<"U", "s", "e", "r">>
    ELSE <<"A", "s", "s", "i", "s", "t", "a", "n", "t">>

\* f"{role}: {msg['content']}\n\n"
ChatLine(msg) == RoleLabel(msg) \o <<":", " ">> \o msg.content \o NL \o NL

\* the loop of lines 344-347 over msgs
RECURSIVE Conversation(_)
Conversation(msgs) ==
    IF msgs = <<>> THEN <<>>
    ELSE ChatLine(Head(msgs)) \o Conversation(Tail(msgs))

\* the text of line 349 and the blank line after it
PromptHead ==
    <<"Y", "o", "u", " ", "a", "r", "e", " ", "a", " ", "h", "e", "l",
      "p", "f", "u", "l", " ", "A", "I", " ", "a", "s", "s", "i", "s",
      "t", "a", "n", "t", ".", " ", "C", "o", "n", "t", "i", "n", "u",
      "e", " ", "t", "h", "e", " ", "c", "o", "n", "v", "e", "r", "s",
      "a", "t", "i", "o", "n", " ", "n", "a", "t", "u", "r", "a", "l",
      "l", "y", ".", "\n", "\n">>

\* the f-string of lines 349-352
ChatPrompt(chat_history) ==
    PromptHead \o Conversation(LastN(chat_history, ChatWindow)) \o NL
    \o <<"A", "s", "s", "i", "s", "t", "a", "n", "t", ":">>

\* lines 343-352, the prompt kept for the call
BuildPrompt(r) == [r EXCEPT !.prompt = ChatPrompt(r.ss.chat_history)]

\* the try of lines 354-359
ChatReply(r, ev) ==
    IF ev.reply.ok
    THEN Rerun(Set(r, "chat_history",
                   Append(r.ss.chat_history,
                          Msg("assistant", ev.reply.text))))
    ELSE Error(r, "generate_failed")

\* the body of `if send and user_input:`
SendChat(r, ev) ==
    ChatReply(Generate(BuildPrompt(Set(r, "chat_history",
                                       Append(r.ss.chat_history,
                                              Msg("user", ev.text))))),
              ev)

\* lines 332-359
chat_buttons(r, ev) ==
    IF ev.button = "Clear Chat" THEN Rerun(Set(r, "chat_history", <<>>))
    ELSE IF ev.button = "Send" /\ ev.text # <<>> THEN SendChat(r, ev)
    ELSE r

free_chat(r, ev) ==
    IF ~Has(r, "model") THEN AttributeError(Enter(r, "chat"))
    ELSE IF ~Truthy(r.ss.model)
    THEN Error(Enter(r, "chat"), "model_not_initialized")
    ELSE IF ~Has(r, "chat_history") THEN AttributeError(Enter(r, "chat"))
    ELSE chat_buttons(Button(Button(Enter(r, "chat"), ev, "Send"),
                             ev, "Clear Chat"),
                      ev)

-----------------------------------------------------------------------------
(* main *)

\* st.rerun() of line 375, unless configure_model raised
RerunUnlessRaised(r) == IF Raised(r) THEN r ELSE Rerun(r)

\* the body of `if st.button("Save API Key") and key_input:`
SaveApiKey(r, ev) ==
    IF r.ss.api_key_entry # <<>>
    THEN RerunUnlessRaised(
            configure_model(Set(r, "api_key", Val(Strip(r.ss.api_key_entry))),
                            ev))
    ELSE r

\* the text box bound to the key api_key_entry: a click sends its content
KeyBox(r, ev) == [Set(r, "api_key_entry", ev.text) EXCEPT !.entry = TRUE]

\* the credential screen, lines 370-377
key_screen(r, ev) ==
    IF ev.button = "Save API Key"
    THEN SaveApiKey(Button(KeyBox(Enter(r, "key"), ev), ev, "Save API Key"),
                    ev)
    ELSE [Enter(r, "key") EXCEPT !.entry = TRUE]

\* Logout with line 396 alone: only the login is undone
LogoutAuthOnly(r) == Rerun(Set(r, "authenticated", FALSE))

\* the body of `if st.sidebar.button("Logout"):`
Logout(r) ==
    Rerun([r EXCEPT !.ss =
             [k \in DOMAIN r.ss \cup DOMAIN InitialModeState |->
                CASE k = "authenticated" -> FALSE
                  [] k = "api_key"       -> None
                  [] k = "api_key_entry" -> <<>>
                  [] OTHER               -> InitialModeState[k]],
                    !.origin = <<>>])

\* login, credential and model as the run finds them when it enters a mode
Gate(r) ==
    [r EXCEPT !.gated = /\ Has(r, "authenticated") /\ r.ss.authenticated
                        /\ Has(r, "api_key") /\ Truthy(r.ss.api_key)
                        /\ Has(r, "model") /\ Truthy(r.ss.model)]

\* lines 408-414
dispatch(r, ev) ==
    CASE r.mode = "guided"   -> guided_learning(r, ev)
      [] r.mode = "practice" -> practice_tests(r, ev)
      [] r.mode = "chat"     -> free_chat(r, ev)

\* lines 389-392: the sidebar radio
sidebar(r, ev) ==
    Reached([r EXCEPT !.mode = IF ev.mode = "same" THEN r.mode ELSE ev.mode,
                      !.nav = TRUE],
            ev.mode # "same")

\* lines 395-414, the Logout button drawn
logout_or_mode(r, ev) ==
    IF ev.button = "Logout" THEN Logout(r) ELSE dispatch(Gate(r), ev)

\* lines 384-414
modes(r, ev) == logout_or_mode(Button(sidebar(r, ev), ev, "Logout"), ev)

\* lines 380-414
after_configure(r, ev) ==
    IF Raised(r) THEN r
    ELSE IF ~Truthy(r.ss.model)
    THEN Error(r, "model_could_not_be_initialized")
    ELSE modes(r, ev)

\* lines 378-379
ensure_model(r, ev) ==
    IF ~Truthy(r.ss.model) THEN configure_model(r, ev) ELSE r

\* lines 366-414
route(r, ev) ==
    IF ~r.ss.authenticated THEN login_screen(r, ev)
    ELSE IF ~Truthy(r.ss.api_key) THEN key_screen(r, ev)
    ELSE IF ~Has(r, "model") THEN AttributeError(r)
    ELSE after_configure(ensure_model(r, ev), ev)

main(r, ev) == route(init_session_state(r), ev)

-----------------------------------------------------------------------------
(* The session *)

\* nothing has happened yet
Fresh ==
    [act     |-> "none",     \* the interaction
     err     |-> "none",     \* the error it surfaced
     page    |-> "none",     \* the screen or mode the page ends on
     ran     |-> {},         \* the mode handlers its runs entered
     gated   |-> TRUE,       \* each of them was entered behind the gate
     calls   |-> 0,          \* generate_content calls it made
     score   |-> -1,         \* score shown
     text    |-> NoText,     \* the password or the topic it submitted
     prompt  |-> NoText,     \* the free-chat prompt it sent
     shorter |-> FALSE,      \* it left a quiz of fewer questions than before
     since   |-> <<>>]       \* gates passed since session start or logout

\* the gates passed by the interaction: a login that authenticated, a key
\* entry that readied the model; a logout closes both
Since(act, old, new) ==
    IF act = "Logout" THEN <<>>
    ELSE IF act = "Login" /\ ~old.authenticated /\ new.authenticated
    THEN Append(last.since, "login")
    ELSE IF act = "SaveApiKey" /\ Has([ss |-> new], "model") /\ Truthy(new.model)
    THEN Append(last.since, "key")
    ELSE last.since

\* the number of questions of the stored quiz
QuizLength(ss) ==
    IF "quiz_questions" \in DOMAIN ss /\ ss.quiz_questions # None
    THEN Len(ss.quiz_questions.v)
    ELSE 0

\* the text an interaction is remembered by
Input(act, ev) ==
    CASE act = "Login"     -> ev.text
      [] act = "EditTopic" -> ev.topic.v
      [] OTHER             -> NoText

\* what an interaction leaves in `last`: r1 is its run, r2 the run it ends on
Outcome(act, ev, r0, r1, r2) ==
    [act   |-> act,
     err   |-> IF r1.rerun /\ r2.err # "none" THEN r2.err ELSE r1.err,
     page  |-> r2.handler,
     ran   |-> {r1.handler, r2.handler} \cap Modes,
     gated |-> r1.gated /\ r2.gated,
     calls |-> IF r1.rerun THEN r1.calls + r2.calls ELSE r1.calls,
     score |-> r2.score,
     text  |-> Input(act, ev),
     prompt |-> r1.prompt,
     shorter |-> QuizLength(r2.ss) < QuizLength(r0.ss),
     since |-> Since(act, init_session_state(r0).ss, r2.ss)]

\* the quiz radios before anyone touched them: the first option
DefaultRadios == [i \in 0..(MaxQuestions - 1) |-> "A"]

\* A script run that reaches its end, or dies of an exception: Streamlit
\* discards the state of every widget the run did not draw.  The radios
\* keyed q_i (line 232) and the sidebar radio (line 389) are then new widgets
\* in the next run that draws them, and return their first option.  A run
\* ended by st.rerun() discards nothing.
EndRun(r) ==
    [r EXCEPT !.q = [i \in DOMAIN r.q |->
                        IF i < r.radios THEN r.q[i] ELSE DefaultRadios[i]],
              !.mode = IF r.nav THEN r.mode ELSE "guided"]

\* one user interaction: the script run it triggers and, when that run ends
\* in st.rerun(), the run that follows
Interact(act, ev) ==
    LET r0 == StartRun(session_state, q_radio, mode, guided_origin)
    IN  \E r1 \in {main(r0, ev)} :
        \E r2 \in {EndRun(IF r1.rerun
                          THEN main(StartRun(r1.ss, r1.q, r1.mode, r1.origin),
                                    NoEvent)
                          ELSE r1)} :
            /\ r1.fired
            /\ session_state' = r2.ss
            /\ q_radio' = r2.q
            /\ mode' = r2.mode
            /\ guided_origin' = r2.origin
            /\ last' = Outcome(act, ev, r0, r1, r2)
            /\ UNCHANGED <<CORRECT_PASSWORD, quiz_blocks, valid_questions>>

\* the session as the first script run of a browser tab leaves it
Init ==
    /\ CORRECT_PASSWORD \in {None, Val(<<"p">>)}
    /\ \E r \in {main(StartRun(EmptyDict, DefaultRadios, "guided", <<>>),
                      NoEvent)} :
          /\ session_state = r.ss
          /\ q_radio = r.q
          /\ mode = r.mode
          /\ guided_origin = r.origin
          /\ last = [Fresh EXCEPT !.err = r.err, !.page = r.handler]
    /\ quiz_blocks = <<>>
    /\ valid_questions = None

Replies(texts) ==
    {[ok |-> FALSE, text |-> NoText]} \cup {[ok |-> TRUE, text |-> t] : t \in texts}

\* how much longer a Send makes a history
Grows(reply) == IF reply.ok THEN 2 ELSE 1

\* Every action is a click or an edit on the page the last run left on the
\* screen; Interact enables it only if the run does draw its widget.

ClickLogin ==
    /\ last.page = "login"
    /\ \E pw \in Passwords :
          Interact("Login", [NoEvent EXCEPT !.button = "Login", !.text = pw])

ClickSaveApiKey ==
    /\ last.page = "key"
    /\ \E k \in KeyInputs, o \in InitOutcomes, w \in BOOLEAN :
          Interact("SaveApiKey", [NoEvent EXCEPT !.button = "Save API Key",
                                                 !.text = k, !.init = o,
                                                 !.write_ok = w])

ChooseMode ==
    /\ last.page \in Modes
    /\ \E m \in Modes \ {mode} :
          Interact("ChooseMode", [NoEvent EXCEPT !.mode = m])

EditTopic ==
    /\ last.page = "guided"
    /\ \E t \in Topics :
          Interact("EditTopic", [NoEvent EXCEPT !.topic = Val(t)])

ClickStartLearning ==
    /\ last.page = "guided"
    /\ \E t \in {None} \cup {Val(x) : x \in Topics}, rp \in Replies({ReplyText}) :
          Interact("StartLearning",
                   [NoEvent EXCEPT !.button = "Start Learning", !.topic = t,
                                   !.reply = rp])

ClickSendResponse ==
    /\ last.page = "guided"
    /\ "guided_history" \in DOMAIN session_state
    /\ \E x \in Messages, rp \in Replies({ReplyText}) :
          /\ Len(session_state.guided_history) + Grows(rp) <= MaxHist
          /\ Interact("SendResponse",
                      [NoEvent EXCEPT !.button = "Send Response", !.text = x,
                                      !.reply = rp])

ClickGenerateQuiz ==
    /\ last.page = "practice"
    /\ \E t \in Messages, rp \in Replies(QuizTexts) :
          Interact("GenerateQuiz",
                   [NoEvent EXCEPT !.button = "Generate Quiz", !.text = t,
                                   !.reply = rp])

ClickSubmitQuiz ==
    /\ last.page = "practice"
    /\ "quiz_questions" \in DOMAIN session_state
    /\ Truthy(session_state.quiz_questions)
    /\ \E sel \in [0..(Len(session_state.quiz_questions.v) - 1) -> Choices] :
          Interact("SubmitQuiz", [NoEvent EXCEPT !.button = "Submit Quiz",
                                                 !.sel = sel])

ClickSend ==
    /\ last.page = "chat"
    /\ "chat_history" \in DOMAIN session_state
    /\ \E x \in Messages, rp \in Replies({ReplyText}) :
          /\ Len(session_state.chat_history) + Grows(rp) <= MaxChat
          /\ Interact("Send", [NoEvent EXCEPT !.button = "Send", !.text = x,
                                              !.reply = rp])

ClickClearChat ==
    /\ last.page = "chat"
    /\ Interact("ClearChat", [NoEvent EXCEPT !.button = "Clear Chat"])

ClickLogout ==
    /\ last.page \in Modes
    /\ Interact("Logout", [NoEvent EXCEPT !.button = "Logout"])

Next ==
    \/ ClickLogin
    \/ ClickSaveApiKey
    \/ ChooseMode
    \/ EditTopic
    \/ ClickStartLearning
    \/ ClickSendResponse
    \/ ClickGenerateQuiz
    \/ ClickSubmitQuiz
    \/ ClickSend
    \/ ClickClearChat
    \/ ClickLogout

Spec == Init /\ [][Next]_vars

-----------------------------------------------------------------------------
(* Free chat alone: the session of a user who logs in, enters a key and      *)
(* chats, each message and each reply a text not seen before                 *)

Decimal == <<"0", "1", "2", "3", "4", "5", "6", "7", "8", "9">>

\* the text of the n-th turn: c and the two digits of n
Numbered(c, n) == <<c, Decimal[(n \div 10) + 1], Decimal[(n % 10) + 1]>>

ClickSendNumbered ==
    /\ last.page = "chat"
    /\ "chat_history" \in DOMAIN session_state
    /\ \E rp \in Replies({Numbered("r", Len(session_state.chat_history) + 2)}) :
          /\ Len(session_state.chat_history) + Grows(rp) <= MaxLongChat
          /\ Interact("Send",
                      [NoEvent EXCEPT
                         !.button = "Send",
                         !.text = Numbered("m",
                                           Len(session_state.chat_history) + 1),
                         !.reply = rp])

ChatNext ==
    \/ ClickLogin
    \/ ClickSaveApiKey
    \/ ChooseMode
    \/ ClickSendNumbered
    \/ ClickClearChat
    \/ ClickLogout

ChatSpec == Init /\ [][ChatNext]_vars

-----------------------------------------------------------------------------
(* parse_quiz alone: a text is composed block by block, then parsed *)

Digits == <<"1", "2", "3", "4", "5", "6", "7", "8", "9">>

\* the n of the Qn: line of the p-th block: line 284 knows Q1: to Q5: only
QNumber(p) == Digits[((p - 1) % 5) + 1]

\* A block is the text that follows each of its tokens, by field; a field the
\* block has no line for is not in its domain.  The p-th plain block:
PlainBlock(p) ==
    [question    |-> <<" ", "q", Digits[p]>>,
     A           |-> <<" ", "w">>,
     B           |-> <<" ", "x">>,
     C           |-> <<" ", "y">>,
     D           |-> <<" ", "z">>,
     correct     |-> <<" ", "B">>,
     explanation |-> <<" ", "e", Digits[p]>>]

\* the block without the line of field k
Without(b, k) == [x \in DOMAIN b \ {k} |-> b[x]]

\* texts with a colon of their own
ColonText ==
    [question    |-> <<" ", "a", ":", "b">>,
     correct     |-> <<" ", "B", ":", " ", "s">>,
     explanation |-> <<" ", "2", ":", "1">>]

\* the blocks a text can hold at position p besides the plain one: a line
\* missing, a line with a bare token, a text with a colon, blank and
\* unrecognised lines between the fields, and no recognised line at all
OddBlocks(p) ==
    {[fields |-> Without(PlainBlock(p), QuizKeys[i]), noise |-> FALSE] :
        i \in 1..Len(QuizKeys)}
    \cup {[fields |-> [PlainBlock(p) EXCEPT ![k] = <<>>], noise |-> FALSE] :
            k \in {"question", "A"}}
    \cup {[fields |-> [PlainBlock(p) EXCEPT ![k] = ColonText[k]],
           noise |-> FALSE] : k \in DOMAIN ColonText}
    \cup {[fields |-> PlainBlock(p), noise |-> TRUE],
          [fields |-> EmptyDict, noise |-> TRUE]}

IsPlain(b, p) == b = [fields |-> PlainBlock(p), noise |-> FALSE]

\* the token a field's line begins with, in the p-th block
Token(k, p) ==
    CASE k = "question"    -> <<"Q", QNumber(p), ":">>
      [] k = "correct"     -> <<"C", "o", "r", "r", "e", "c", "t", ":">>
      [] k = "explanation" -> <<"E", "x", "p", "l", "a", "n", "a", "t", "i",
                                "o", "n", ":">>
      [] OTHER             -> <<k, ")">>

\* a blank line and a line no token begins
Noise == NL \o <<"n", "o", "t", "e">> \o NL

\* the lines of the fields i.. of the p-th block
RECURSIVE FieldLines(_, _, _)
FieldLines(b, p, i) ==
    IF i > Len(QuizKeys) THEN <<>>
    ELSE (IF QuizKeys[i] \in DOMAIN b.fields
          THEN Token(QuizKeys[i], p) \o b.fields[QuizKeys[i]] \o NL
               \o (IF b.noise THEN Noise ELSE <<>>)
          ELSE <<>>)
         \o FieldLines(b, p, i + 1)

\* the text of the p-th block, a blank line after it
BlockText(b, p) ==
    (IF b.noise THEN Noise ELSE <<>>) \o FieldLines(b, p, 1) \o NL

\* the text of the blocks p.. of bs
RECURSIVE Render(_, _)
Render(bs, p) ==
    IF p > Len(bs) THEN <<>> ELSE BlockText(bs[p], p) \o Render(bs, p + 1)

\* the subscript [1] of lines 287, 297 and 299 on a line without a colon
Subscript(line) ==
    \/ /\ \E q \in QPrefixes : StartsWith(line, q)
       /\ Len(Split1(line, ":")) < 2
    \/ /\ StartsWith(line, Token("correct", 1))
       /\ Len(Split(line, ":")) < 2
    \/ /\ StartsWith(line, Token("explanation", 1))
       /\ Len(Split1(line, ":")) < 2

\* some line of the text makes the loop body raise IndexError
Raises(quiz_text) ==
    \E lines \in {Split(Strip(quiz_text), "\n")} :
        \E i \in 1..Len(lines) : Subscript(Strip(lines[i]))

IndexError == [t |-> "IndexError", v |-> <<>>]

\* the call parse_quiz(quiz_text): what it returns, or the exception
Call(quiz_text) ==
    IF Raises(quiz_text) THEN IndexError ELSE Val(parse_quiz(quiz_text))

OddCount(bs) == Cardinality({p \in 1..Len(bs) : ~IsPlain(bs[p], p)})

\* the text grows by a plain block
ComposePlain ==
    /\ valid_questions = None
    /\ Len(quiz_blocks) < MaxBlocks
    /\ quiz_blocks' = Append(quiz_blocks,
                             [fields |-> PlainBlock(Len(quiz_blocks) + 1),
                              noise |-> FALSE])
    /\ UNCHANGED <<CORRECT_PASSWORD, session_state, q_radio, mode,
                   guided_origin, last, valid_questions>>

\* the text grows by a block that is not plain
ComposeOdd ==
    /\ valid_questions = None
    /\ Len(quiz_blocks) < MaxBlocks
    /\ OddCount(quiz_blocks) < MaxOdd
    /\ \E b \in OddBlocks(Len(quiz_blocks) + 1) :
          quiz_blocks' = Append(quiz_blocks, b)
    /\ UNCHANGED <<CORRECT_PASSWORD, session_state, q_radio, mode,
                   guided_origin, last, valid_questions>>

\* parse_quiz(response.text)
ParseText ==
    /\ valid_questions = None
    /\ valid_questions' = Call(Render(quiz_blocks, 1))
    /\ UNCHANGED <<CORRECT_PASSWORD, session_state, q_radio, mode,
                   guided_origin, last, quiz_blocks>>

ParserNext == ComposePlain \/ ComposeOdd \/ ParseText

ParserSpec == Init /\ [][ParserNext]_vars

-----------------------------------------------------------------------------
(* Properties *)

\* st.session_state.k as a sequence: empty when the key does not exist
Field(k) == IF k \in DOMAIN session_state THEN <<session_state[k]>> ELSE <<>>

QuizFields == {"quiz_questions", "user_answers", "quiz_submitted"}

\* st.session_state after the first run of a new browser tab
FreshSession ==
    init_session_state(StartRun(EmptyDict, DefaultRadios, "guided", <<>>)).ss

\* C1: once a fresh session has passed the login and the credential entry,
\* no run of a mode handler ends in an AttributeError for a field of the
\* session that was never initialised.
C1_NoUninitialisedRead ==
    last.since = <<"login", "key">> => last.err # "AttributeError"

\* C2: a provider failure in Start Learning, Send Response or free-chat Send
\* is one call, not retried, and leaves the guided history and the free-chat
\* history as they were before the click.
C2_FailedCallKeepsHistories ==
    [][(/\ last'.act \in {"StartLearning", "SendResponse", "Send"}
        /\ last'.err = "generate_failed")
       => /\ last'.calls = 1
          /\ Field("guided_history")' = Field("guided_history")
          /\ Field("chat_history")' = Field("chat_history")]_vars

\* C3: when the model call of Generate Quiz fails on an existing quiz state,
\* questions, user answers and the submitted flag are all what they were
\* before the click.
C3_FailedGenerateKeepsQuiz ==
    [][(/\ last'.act = "GenerateQuiz"
        /\ last'.err = "generate_failed"
        /\ QuizFields \subseteq DOMAIN session_state)
       => \A k \in QuizFields : Field(k)' = Field(k)]_vars

\* C4: after Logout the session state is the session state of a freshly
\* initialised session.
C4_LogoutRestoresFresh ==
    last.act = "Logout" => session_state = FreshSession

\* C5: a mode handler runs, and generate_content is called, only behind the
\* gate: the run finds the user authenticated, a credential stored and the
\* model ready, and since the session started or was last logged out there
\* was a login and then a credential entry, in that order.
C5_ModesBehindGate ==
    /\ (last.ran # {} \/ last.calls > 0)
          => /\ last.ran # {}
             /\ last.gated
             /\ last.since = <<"login", "key">>
    /\ last.page \in Modes
          => /\ session_state.authenticated
             /\ Truthy(session_state.api_key)
             /\ Field("model") # <<>> /\ Truthy(session_state.model)

\* a Send of the free chat that called the model
C5_Witness ==
    last.act = "Send" /\ last.calls = 1 /\ last.ran = {"chat"}

\* C6: between interactions the model is ready only while a credential is
\* stored; a failed initialisation and a logout leave both cleared.
C6_ModelReadyNeedsCredential ==
    /\ (Field("model") # <<>> /\ Truthy(session_state.model))
          => Truthy(session_state.api_key)
    /\ (\/ last.err \in {"init_failed", "init_unexpected",
                         "StreamlitAPIException"}
        \/ last.act = "Logout")
          => /\ session_state.api_key = None
             /\ Field("model") = <<None>>

\* a credential entry whose model initialisation failed
C6_Witness ==
    /\ last.act = "SaveApiKey"
    /\ last.err = "init_failed"
    /\ session_state.api_key = None

\* a click on Login that authenticates
CorrectLogin == ClickLogin /\ session_state'.authenticated

\* C7: the user is authenticated only through a Login whose input equals the
\* configured password; any other input leaves the user out and shows the
\* wrong-password error; while a password is configured a correct Login is
\* always possible from the login screen; without a configured password
\* nobody is authenticated and the configuration error is shown.
C7_LoginOnlyByPassword ==
    /\ session_state.authenticated
          => /\ CORRECT_PASSWORD # None
             /\ last.since # <<>> /\ last.since[1] = "login"
    /\ last.act = "Login"
          => /\ session_state.authenticated
                    <=> Val(last.text) = CORRECT_PASSWORD
             /\ ~session_state.authenticated
                    <=> last.err = "incorrect_password"
    /\ (last.page = "login" /\ CORRECT_PASSWORD # None) => ENABLED CorrectLogin
    /\ CORRECT_PASSWORD = None
          => ~session_state.authenticated /\ last.err = "not_configured"

\* a Login with the configured password
C7_Witness ==
    /\ last.act = "Login"
    /\ Val(last.text) = CORRECT_PASSWORD
    /\ session_state.authenticated

\* every guided turn was produced under the topic now stored
OneTopic ==
    "guided_history" \in DOMAIN session_state
        => /\ Len(guided_origin) = Len(session_state.guided_history)
           /\ \A i \in 1..Len(guided_origin) :
                 guided_origin[i] = session_state.guided_topic

\* C8: editing the topic stores it; a topic other than the stored one empties
\* the guided history, the stored topic again leaves the history as it was;
\* and every turn of the guided history was produced under the stored topic.
C8_TopicChangeResetsHistory ==
    [][/\ last'.act = "EditTopic"
          => /\ session_state'.guided_topic = last'.text
             /\ IF last'.text # session_state.guided_topic
                THEN session_state'.guided_history = <<>>
                ELSE session_state'.guided_history
                        = session_state.guided_history
       /\ OneTopic']_vars

\* the topic box confirmed over a dialogue that is kept
C8_Witness ==
    /\ last.act = "EditTopic"
    /\ Len(session_state.guided_history) > 1
    /\ session_state.guided_topic = <<"u">>

\* the quiz was regenerated: Generate Quiz called the model and it returned
Regenerated == last.act = "GenerateQuiz" /\ last.calls = 1 /\ last.err = "none"

\* C9: after the quiz questions are regenerated the quiz is not submitted and
\* no answer is recorded.
C9_RegenerateClearsAnswers ==
    Regenerated
        => /\ session_state.quiz_submitted = FALSE
           /\ session_state.user_answers = EmptyDict

\* the quiz is on the page and not submitted, or submitted
Presented ==
    /\ QuizFields \subseteq DOMAIN session_state
    /\ session_state.quiz_questions # None
    /\ ~session_state.quiz_submitted

Graded ==
    /\ QuizFields \subseteq DOMAIN session_state
    /\ session_state.quiz_questions # None
    /\ session_state.quiz_submitted

\* C10: Generate Quiz with a returning model call ends in Presented; Submit
\* Quiz ends in Graded; and a graded quiz stays graded until the questions
\* are regenerated or the user logs out.
C10_QuizStateMachine ==
    [][/\ Regenerated' => Presented'
       /\ last'.act = "SubmitQuiz" => Graded'
       /\ (Graded /\ ~Graded') => (Regenerated' \/ last'.act = "Logout")]_vars

\* the stored questions and answers, empty while there are none
StoredQuestions ==
    IF Field("quiz_questions") # <<>> /\ session_state.quiz_questions # None
    THEN session_state.quiz_questions.v ELSE <<>>

StoredAnswers ==
    IF Field("user_answers") # <<>> THEN session_state.user_answers
    ELSE EmptyDict

\* indices whose selected option starts with the letter stored as correct; an
\* index without an answer, or with an empty one, is not among them
RightAnswers ==
    {i \in 0..(Len(StoredQuestions) - 1) :
        /\ i \in DOMAIN StoredAnswers
        /\ StoredAnswers[i] # <<>>
        /\ <<StoredAnswers[i][1]>> = StoredQuestions[i + 1]["correct"]}

\* C11: a score is shown only for a graded quiz, and the score shown for a
\* graded quiz is the number of questions whose selected option starts with
\* the letter stored as the question's correct answer.
C11_ScoreCountsMatchingLetters ==
    /\ last.score # -1 => Graded
    /\ (Graded /\ last.page = "practice")
          => last.score = Cardinality(RightAnswers)

\* correct = [B, A] answered "B) x" and "C) y" scores 1
C11_Witness ==
    /\ Graded
    /\ last.act = "SubmitQuiz"
    /\ Len(StoredQuestions) = 2
    /\ StoredQuestions[1]["correct"] = <<"B">>
    /\ StoredQuestions[2]["correct"] = <<"A">>
    /\ StoredAnswers[0] = <<"B", ")", " ", "x">>
    /\ StoredAnswers[1] = <<"C", ")", " ", "y">>
    /\ last.score = 1

\* parse_quiz was called and returned
Parsed == valid_questions.t = "val"

\* the block has a line for each of the seven fields
Complete(b) == DOMAIN b.fields = {QuizKeys[i] : i \in 1..Len(QuizKeys)}

\* ... and each line has a text
ValidBlock(b) ==
    /\ Complete(b)
    /\ \A k \in DOMAIN b.fields : \E text \in {b.fields[k]} : Strip(text) # <<>>

\* the record of a block: each field the trimmed text after its token
OwnRecord(b) == [k \in DOMAIN b.fields |-> Strip(b.fields[k])]

RecordsOf(bs) == [i \in 1..Len(bs) |-> OwnRecord(bs[i])]

\* the p-th block is the plain block, or the plain block less one line
PlainOrLacking(p) ==
    /\ ~quiz_blocks[p].noise
    /\ quiz_blocks[p].fields
            = [k \in DOMAIN quiz_blocks[p].fields |-> PlainBlock(p)[k]]

\* C12: of a text made of complete blocks and of blocks that lack one of
\* their seven lines, parse_quiz returns the records of the complete blocks,
\* each with its own field values, and nothing of the incomplete blocks.
C12_IncompleteBlockExcluded ==
    (/\ Parsed
     /\ \A p \in 1..Len(quiz_blocks) : PlainOrLacking(p)
     /\ Len(SelectSeq(quiz_blocks, Complete)) <= MaxQuestions)
        => valid_questions.v = RecordsOf(SelectSeq(quiz_blocks, Complete))

\* C13: of a text with more than 5 valid blocks parse_quiz returns the
\* records of the first 5 of them, in order, each with its own field values.
C13_FirstFiveValidBlocks ==
    (Parsed /\ Len(SelectSeq(quiz_blocks, ValidBlock)) > MaxQuestions)
        => valid_questions.v
              = Take(RecordsOf(SelectSeq(quiz_blocks, ValidBlock)),
                     MaxQuestions)

\* C14: every record parse_quiz returns has each of the seven fields, and
\* none of them is the empty string.
C14_RecordsFullyPopulated ==
    Parsed
        => \A i \in 1..Len(valid_questions.v) :
              \A j \in 1..Len(QuizKeys) :
                 /\ QuizKeys[j] \in DOMAIN valid_questions.v[i]
                 /\ valid_questions.v[i][QuizKeys[j]] # <<>>

\* the block has no recognised line
Unrecognised(b) == DOMAIN b.fields = {}

\* the text is 5 valid blocks, with or without blank and unrecognised lines
\* between their fields and around them
FiveValidBlocks ==
    /\ \A p \in 1..Len(quiz_blocks) :
          ValidBlock(quiz_blocks[p]) \/ Unrecognised(quiz_blocks[p])
    /\ Len(SelectSeq(quiz_blocks, ValidBlock)) = MaxQuestions

\* C15: parse_quiz never raises; of a text without a recognised line it
\* returns the empty list; of a text of exactly 5 valid blocks, blank and
\* unrecognised lines between their fields or not, it returns 5 records in
\* the order of the blocks.
C15_TotalAndFiveInOrder ==
    /\ valid_questions # IndexError
    /\ (Parsed /\ \A p \in 1..Len(quiz_blocks) : Unrecognised(quiz_blocks[p]))
          => valid_questions.v = <<>>
    /\ (Parsed /\ FiveValidBlocks)
          => /\ Len(valid_questions.v) = MaxQuestions
             /\ \A i \in 1..MaxQuestions :
                   \A k \in {"question", "explanation"} :
                      valid_questions.v[i][k]
                         = OwnRecord(SelectSeq(quiz_blocks, ValidBlock)[i])[k]

\* five valid blocks, one of them with blank and unrecognised lines between
\* its fields, parsed into five records
C15_Witness ==
    /\ Parsed
    /\ FiveValidBlocks
    /\ \E p \in 1..Len(quiz_blocks) : quiz_blocks[p].noise
    /\ Len(valid_questions.v) = MaxQuestions

\* C16: of a text of at most 5 valid blocks, each record's question, correct
\* and explanation is the whole trimmed text after the first colon of its
\* line, colons of the text included.
C16_TextAfterFirstColon ==
    (/\ Parsed
     /\ Len(quiz_blocks) <= MaxQuestions
     /\ \A p \in 1..Len(quiz_blocks) : ValidBlock(quiz_blocks[p]))
        => /\ Len(valid_questions.v) = Len(quiz_blocks)
           /\ \A p \in 1..Len(quiz_blocks) :
                 \A k \in {"question", "correct", "explanation"} :
                    valid_questions.v[p][k] = OwnRecord(quiz_blocks[p])[k]

\* the actions of the mode a field of the session belongs to
Owners ==
    [guided_topic   |-> {"EditTopic", "StartLearning", "SendResponse"},
     guided_history |-> {"EditTopic", "StartLearning", "SendResponse"},
     quiz_questions |-> {"GenerateQuiz", "SubmitQuiz"},
     user_answers   |-> {"GenerateQuiz", "SubmitQuiz"},
     quiz_submitted |-> {"GenerateQuiz", "SubmitQuiz"},
     chat_history   |-> {"Send", "ClearChat"}]

\* C17: choosing another mode in the sidebar changes no field of any mode,
\* and a field of a mode is changed only by an action of that mode or by
\* Logout.
C17_ModeSwitchKeepsModeState ==
    [][\A k \in DOMAIN Owners \cap DOMAIN session_state :
          session_state'[k] # session_state[k]
             => last'.act \in Owners[k] \cup {"Logout"}]_vars

\* a Send that called the model
Sent == last.act = "Send" /\ last.calls = 1

\* the free-chat history as the call of a Send found it: the user's message
\* appended, the reply not yet
HistoryAtCall ==
    IF last.err = "none"
    THEN SubSeq(session_state.chat_history, 1,
                Len(session_state.chat_history) - 1)
    ELSE session_state.chat_history

\* where a text occurs in another
Positions(text, in) ==
    {i \in 1..(Len(in) - Len(text) + 1) :
        SubSeq(in, i, i + Len(text) - 1) = text}

First(text, in) ==
    CHOOSE i \in Positions(text, in) : \A j \in Positions(text, in) : i <= j

\* the k-th of n messages is one of the last 10
InWindow(k, n) == k > n - ChatWindow

\* the prompt holds the content of each of the last 10 messages once, in the
\* order of the history, and the content of no message before them
PromptOfLastTen ==
    /\ \A k \in 1..Len(HistoryAtCall) :
          Cardinality(Positions(HistoryAtCall[k].content, last.prompt))
             = IF InWindow(k, Len(HistoryAtCall)) THEN 1 ELSE 0
    /\ \A k \in 1..(Len(HistoryAtCall) - 1) :
          InWindow(k, Len(HistoryAtCall))
             => First(HistoryAtCall[k].content, last.prompt)
                   < First(HistoryAtCall[k + 1].content, last.prompt)

\* s is the beginning of t
IsPrefix(s, t) == Len(s) <= Len(t) /\ SubSeq(t, 1, Len(s)) = s

\* C18: the prompt of every Send is built from the last 10 messages of the
\* free-chat history, the message just appended included, in order, and
\* holds nothing of an older message; the stored history only grows, except
\* that Clear Chat and Logout empty it.
C18_PromptOfLastTen ==
    [][/\ Sent' => PromptOfLastTen'
       /\ Field("chat_history") # <<>>
             => IF last'.act \in {"ClearChat", "Logout"}
                THEN session_state'.chat_history = <<>>
                ELSE IsPrefix(session_state.chat_history,
                              session_state'.chat_history)]_vars

\* a Send on a history of more than 10 messages
C18_Witness ==
    /\ Sent
    /\ Len(HistoryAtCall) > ChatWindow
    /\ Len(session_state.chat_history) > Len(HistoryAtCall)

\* the turns of h are by first, the other role, first, ...
Alternates(h, first) ==
    \A i \in 1..Len(h) :
        (h[i].role = first) <=> (i % 2 = 1)

\* C19: the guided history alternates roles from an assistant turn on, the
\* free-chat history from a user turn on.
C19_RolesAlternate ==
    /\ Field("guided_history") # <<>>
          => Alternates(session_state.guided_history, "assistant")
    /\ Field("chat_history") # <<>>
          => Alternates(session_state.chat_history, "user")

\* C20: the stored quiz has at most 5 questions, every key of user_answers
\* is an index of the stored questions, and a score shown is at most the
\* number of stored questions.
C20_AnswersWithinQuiz ==
    /\ Len(StoredQuestions) <= MaxQuestions
    /\ DOMAIN StoredAnswers \subseteq 0..(Len(StoredQuestions) - 1)
    /\ last.score <= Len(StoredQuestions)

\* a quiz of one question generated over a longer one that had its answers
C20_Witness ==
    /\ Regenerated
    /\ last.shorter
    /\ Len(StoredQuestions) = 1
    /\ DOMAIN StoredAnswers = {0}

=============================================================================
